---- MODULE Spec2Model ----
(***************************************************************************)
(* Model of the ticket queue engine of WINS                                *)
(* (src/backend/services/Services.py).  The durable store is one DuckDB    *)
(* table `tickets` and the sequence `seq_personid`.  No function issues    *)
(* BEGIN, so every conn.execute() is its own auto-committed statement:     *)
(* conn.commit() has nothing to commit and conn.rollback() raises "no      *)
(* transaction is active".  One action below is one statement (or one      *)
(* local step between two statements) of one caller.                       *)
(***************************************************************************)
EXTENDS Integers, Sequences, FiniteSets, TLC

(* ---- bounds ---- *)
MaxTickets == 2   \* rows the table may hold
MaxClock   == 1   \* wall-clock readings are 0..MaxClock
MaxLimit   == 2   \* largest limit passed to get_ticket_history

Procs == {"kiosk", "staff"}          \* concurrent callers of the service

DefaultLimit == 10   \* get_ticket_history(limit: int = 10)

VARIABLES
    tickets,    \* table tickets: rows in insertion order
    seq,        \* next value of sequence seq_personid
    clock,      \* what datetime.now() returns (naive local wall clock)
    pc,         \* per caller: the statement it executes next, or "idle"
    loc,        \* per caller: local variables of the running function
    out,        \* the outcome of the call that returns in this step, else NoOut
    called,     \* row ids returned so far by successful call_next_ticket calls
    printed     \* per ticket number: how often ThermalPrinter.print was invoked

vars == <<tickets, seq, clock, pc, loc, out, called, printed>>

CreatePcs == {"ct_now", "ct_insert", "ct_print"}
CallPcs   == {"cn_update", "cn_time", "cn_wait"}
StatusPcs == {"qs_total", "qs_max"}

Loc0 == [num |-> 0, ts |-> 0, id |-> 0, ct |-> 0, cnt |-> 0, tot |-> 0]

\* the outcome of a call.  rows / changed: the rows the UPDATE of reset_queue
\* matched / gave a new value; waiting, total, highest: the payload of
\* get_queue_status; keys: the keys of the payload of get_currently_called
NoOut == [op |-> "-", kind |-> "-", err |-> "-", num |-> 0, ts |-> 0,
          wait |-> 0, id |-> 0, hist |-> <<>>, rows |-> 0, changed |-> 0,
          waiting |-> 0, total |-> 0, highest |-> 0, keys |-> {}]

Init ==
    /\ tickets = <<>>
    /\ seq = 1
    /\ clock = 0
    /\ pc = [p \in Procs |-> "idle"]
    /\ loc = [p \in Procs |-> Loc0]
    /\ out = NoOut
    /\ called = {}
    /\ printed = [n \in 1..MaxTickets |-> 0]

(* ---- pure helpers over the table ---- *)
\* mutant: the WHERE attended = FALSE filter is missing
WaitingUnfiltered(tbl) == DOMAIN tbl

Waiting(tbl) == {i \in DOMAIN tbl : ~tbl[i].attended}

\* mutant: the WHERE attended = TRUE filter is missing
AttendedUnfiltered(tbl) == DOMAIN tbl

Attended(tbl) == {i \in DOMAIN tbl : tbl[i].attended}

\* mutant: the maximum is taken over the waiting rows only
MaxTicketNumberOfWaiting(tbl) ==
    IF Waiting(tbl) = {} THEN 0
    ELSE CHOOSE m \in {tbl[i].ticket_number : i \in Waiting(tbl)} :
            \A i \in Waiting(tbl) : tbl[i].ticket_number <= m

\* SELECT MAX(ticket_number) FROM tickets, with "result if result is not None else 0"
MaxTicketNumber(tbl) ==
    IF tbl = <<>> THEN 0
    ELSE CHOOSE m \in {tbl[i].ticket_number : i \in DOMAIN tbl} :
            \A i \in DOMAIN tbl : tbl[i].ticket_number <= m

\* a call returns (or raises): back to idle, locals dropped, outcome handed over
Return(p, r) ==
    /\ pc' = [pc EXCEPT ![p] = "idle"]
    /\ loc' = [loc EXCEPT ![p] = Loc0]
    /\ out' = r

\* a step inside a function: nothing is returned
Goto(p, label) ==
    /\ pc' = [pc EXCEPT ![p] = label]
    /\ out' = NoOut

(* ---- the wall clock ---- *)
Tick ==
    /\ clock < MaxClock
    /\ clock' = clock + 1
    /\ out' = NoOut
    /\ UNCHANGED <<tickets, seq, pc, loc, called, printed>>

\* datetime.now() is naive local time: it is set back at the end of daylight
\* saving time and by clock adjustments
ClockSetBack ==
    /\ clock > 0
    /\ clock' = clock - 1
    /\ out' = NoOut
    /\ UNCHANGED <<tickets, seq, pc, loc, called, printed>>

(* ---- create_ticket ---- *)
\* mutant: the new number is one more than the number of waiting tickets
CreateSelectCountWaiting(p) ==
    /\ pc[p] = "idle"
    /\ Len(tickets) + Cardinality({q \in Procs : pc[q] \in CreatePcs}) < MaxTickets
    /\ loc' = [loc EXCEPT ![p].num = Cardinality(Waiting(tickets)) + 1]
    /\ Goto(p, "ct_now")
    /\ UNCHANGED <<tickets, seq, clock, called, printed>>

\* conn = get_connection(); printer = ThermalPrinter(); SELECT MAX(ticket_number)
CreateSelectMax(p) ==
    /\ pc[p] = "idle"
    /\ Len(tickets) + Cardinality({q \in Procs : pc[q] \in CreatePcs}) < MaxTickets
    /\ loc' = [loc EXCEPT ![p].num = MaxTicketNumber(tickets) + 1]
    /\ Goto(p, "ct_now")
    /\ UNCHANGED <<tickets, seq, clock, called, printed>>

CreateNow(p) ==
    /\ pc[p] = "ct_now"
    /\ loc' = [loc EXCEPT ![p].ts = clock]
    /\ Goto(p, "ct_insert")
    /\ UNCHANGED <<tickets, seq, clock, called, printed>>

\* INSERT INTO tickets ... VALUES (nextval('seq_personid'), ?, ?, FALSE); the
\* conn.commit() after it finds the statement already committed
CreateInsert(p) ==
    /\ pc[p] = "ct_insert"
    /\ tickets' = Append(tickets, [id |-> seq, ticket_number |-> loc[p].num,
                                   timestamp |-> loc[p].ts, attended |-> FALSE])
    /\ seq' = seq + 1
    /\ loc' = [loc EXCEPT ![p].id = seq]
    /\ Goto(p, "ct_print")
    /\ UNCHANGED <<clock, called, printed>>

\* mutant: the print side effect is invoked twice
CreatePrintTwice(p) ==
    /\ pc[p] = "ct_print"
    /\ printed' = [printed EXCEPT ![loc[p].num] = @ + 2]
    /\ Return(p, [NoOut EXCEPT !.op = "create_ticket", !.kind = "ticket",
                               !.num = loc[p].num, !.ts = loc[p].ts, !.id = loc[p].id])
    /\ UNCHANGED <<tickets, seq, clock, called>>

\* printer.print(new_ticket_number, timestamp); return the payload
CreatePrint(p) ==
    /\ pc[p] = "ct_print"
    /\ printed' = [printed EXCEPT ![loc[p].num] = @ + 1]
    /\ Return(p, [NoOut EXCEPT !.op = "create_ticket", !.kind = "ticket",
                               !.num = loc[p].num, !.ts = loc[p].ts, !.id = loc[p].id])
    /\ UNCHANGED <<tickets, seq, clock, called>>

\* the except branch of create_ticket: print(e); conn.rollback() raises because no
\* transaction is active and is ignored; return None.  id is the row this call had
\* inserted before the exception (0: none)
CreateExcept(p, cause) ==
    Return(p, [NoOut EXCEPT !.op = "create_ticket", !.kind = "none", !.err = cause,
                            !.id = loc[p].id])

(* ---- call_next_ticket ---- *)
\* mutant: a row is selected only if its timestamp is below every other one
OldestWaitingStrict(tbl) ==
    {i \in Waiting(tbl) :
        \A j \in Waiting(tbl) \ {i} : tbl[i].timestamp < tbl[j].timestamp}

\* SELECT id, ticket_number, timestamp FROM tickets WHERE attended = FALSE
\* ORDER BY timestamp ASC LIMIT 1: any waiting row of least timestamp
OldestWaiting(tbl) ==
    {i \in Waiting(tbl) : \A j \in Waiting(tbl) : tbl[i].timestamp <= tbl[j].timestamp}

\* conn = get_connection(); the SELECT; "if not result: return None"
CallSelect(p) ==
    /\ pc[p] = "idle"
    /\ IF Waiting(tickets) = {}
       THEN /\ Return(p, [NoOut EXCEPT !.op = "call_next_ticket", !.kind = "none"])
       ELSE \E i \in OldestWaiting(tickets) :
            /\ loc' = [loc EXCEPT ![p].id = tickets[i].id,
                                  ![p].num = tickets[i].ticket_number,
                                  ![p].ts = tickets[i].timestamp]
            /\ Goto(p, "cn_update")
    /\ UNCHANGED <<tickets, seq, clock, called, printed>>

\* mutant: the UPDATE matches no row
MarkAttendedNoRow(tbl, id) == tbl

\* UPDATE tickets SET attended = TRUE WHERE id = ?
MarkAttended(tbl, id) ==
    [i \in DOMAIN tbl |-> IF tbl[i].id = id THEN [tbl[i] EXCEPT !.attended = TRUE]
                                              ELSE tbl[i]]

\* mutant: the selected row is deleted instead of updated
CallUpdateDelete(p) ==
    /\ pc[p] = "cn_update"
    /\ tickets' = SelectSeq(tickets, LAMBDA r : r.id # loc[p].id)
    /\ Goto(p, "cn_time")
    /\ UNCHANGED <<seq, clock, loc, called, printed>>

CallUpdate(p) ==
    /\ pc[p] = "cn_update"
    /\ tickets' = MarkAttended(tickets, loc[p].id)
    /\ Goto(p, "cn_time")
    /\ UNCHANGED <<seq, clock, loc, called, printed>>

\* mutant: called_time is the issuance timestamp read by the SELECT
CallTimeOfIssuance(p) ==
    /\ pc[p] = "cn_time"
    /\ loc' = [loc EXCEPT ![p].ct = loc[p].ts]
    /\ Goto(p, "cn_wait")
    /\ UNCHANGED <<tickets, seq, clock, called, printed>>

\* "called_time": datetime.now().isoformat()
CallTime(p) ==
    /\ pc[p] = "cn_time"
    /\ loc' = [loc EXCEPT ![p].ct = clock]
    /\ Goto(p, "cn_wait")
    /\ UNCHANGED <<tickets, seq, clock, called, printed>>

\* "wait_time_seconds": (datetime.now() - timestamp).total_seconds(); return
CallWait(p) ==
    /\ pc[p] = "cn_wait"
    /\ called' = called \cup {loc[p].id}
    /\ Return(p, [NoOut EXCEPT !.op = "call_next_ticket", !.kind = "called",
                               !.num = loc[p].num, !.ts = loc[p].ct,
                               !.wait = clock - loc[p].ts, !.id = loc[p].id])
    /\ UNCHANGED <<tickets, seq, clock, printed>>

(* ---- reset_queue ---- *)
\* mutant: the UPDATE flips the flag of every row
ToggleAllAttended(tbl) == [i \in DOMAIN tbl |-> [tbl[i] EXCEPT !.attended = ~@]]

\* UPDATE tickets SET attended = TRUE
MarkAllAttended(tbl) == [i \in DOMAIN tbl |-> [tbl[i] EXCEPT !.attended = TRUE]]

\* mutant: the UPDATE carries WHERE attended = FALSE
ResetMatchesWaiting(tbl) == Waiting(tbl)

\* the rows the UPDATE matches: it has no WHERE clause, so all of them
ResetMatches(tbl) == DOMAIN tbl

\* mutant: the reset wipes the table
ResetQueueWipe(p) ==
    /\ pc[p] = "idle"
    /\ tickets' = <<>>
    /\ Return(p, [NoOut EXCEPT !.op = "reset_queue", !.kind = "true",
                               !.rows = Cardinality(ResetMatches(tickets)),
                               !.changed = Cardinality({i \in ResetMatches(tickets) :
                                                          ~tickets[i].attended})])
    /\ UNCHANGED <<seq, clock, called, printed>>

\* conn = get_connection(); the UPDATE; conn.commit(); return True
ResetQueue(p) ==
    /\ pc[p] = "idle"
    /\ tickets' = MarkAllAttended(tickets)
    /\ Return(p, [NoOut EXCEPT !.op = "reset_queue", !.kind = "true",
                               !.rows = Cardinality(ResetMatches(tickets)),
                               !.changed = Cardinality({i \in ResetMatches(tickets) :
                                                          ~tickets[i].attended})])
    /\ UNCHANGED <<seq, clock, called, printed>>

(* ---- get_ticket_history ---- *)
RECURSIVE IdDescending(_, _)
\* the rows of index set S of tbl, ORDER BY id DESC
IdDescending(tbl, S) ==
    IF S = {} THEN <<>>
    ELSE LET top == CHOOSE i \in S : \A j \in S : tbl[j].id <= tbl[i].id
         IN  <<tbl[top]>> \o IdDescending(tbl, S \ {top})

Take(s, n) == SubSeq(s, 1, IF n < Len(s) THEN n ELSE Len(s))

\* mutant: the waiting rows are listed instead of the attended ones
TicketHistoryOfWaiting(tbl, limit) ==
    LET rows == Take(IdDescending(tbl, Waiting(tbl)), limit)
    IN  [k \in DOMAIN rows |-> [ticket_number |-> rows[k].ticket_number,
                                called_at |-> rows[k].timestamp]]

\* SELECT ticket_number, timestamp FROM tickets WHERE attended = TRUE
\* ORDER BY id DESC LIMIT ?, then the list comprehension building the entries
TicketHistory(tbl, limit) ==
    LET rows == Take(IdDescending(tbl, Attended(tbl)), limit)
    IN  [k \in DOMAIN rows |-> [ticket_number |-> rows[k].ticket_number,
                                called_at |-> rows[k].timestamp]]

\* conn = get_connection(); the SELECT; return history
GetTicketHistory(p) ==
    /\ pc[p] = "idle"
    /\ \E limit \in 1..MaxLimit :
         Return(p, [NoOut EXCEPT !.op = "get_ticket_history", !.kind = "list",
                                 !.num = limit,
                                 !.hist = TicketHistory(tickets, limit)])
    /\ UNCHANGED <<tickets, seq, clock, called, printed>>

\* get_ticket_history() with the argument omitted: limit is bound to its default
GetTicketHistoryDefault(p) ==
    /\ pc[p] = "idle"
    /\ Return(p, [NoOut EXCEPT !.op = "get_ticket_history", !.kind = "list",
                               !.num = DefaultLimit,
                               !.hist = TicketHistory(tickets, DefaultLimit)])
    /\ UNCHANGED <<tickets, seq, clock, called, printed>>

(* ---- get_queue_status ---- *)
\* SELECT COUNT(*) FROM tickets WHERE attended = FALSE
CountWaiting(tbl) == Cardinality(Waiting(tbl))

\* mutant: the count is taken over the attended rows
CountRowsAttended(tbl) == Cardinality(Attended(tbl))

\* SELECT COUNT(*) FROM tickets
CountRows(tbl) == Len(tbl)

\* conn = get_connection(); waiting_count = first SELECT
StatusWaiting(p) ==
    /\ pc[p] = "idle"
    /\ loc' = [loc EXCEPT ![p].cnt = CountWaiting(tickets)]
    /\ Goto(p, "qs_total")
    /\ UNCHANGED <<tickets, seq, clock, called, printed>>

\* total_issued = second SELECT
StatusTotal(p) ==
    /\ pc[p] = "qs_total"
    /\ loc' = [loc EXCEPT ![p].tot = CountRows(tickets)]
    /\ Goto(p, "qs_max")
    /\ UNCHANGED <<tickets, seq, clock, called, printed>>

\* mutant: the waiting rows are counted last, after the count of all rows
StatusHighestCountsWaitingLast(p) ==
    /\ pc[p] = "qs_max"
    /\ Return(p, [NoOut EXCEPT !.op = "get_queue_status", !.kind = "status",
                               !.waiting = CountWaiting(tickets), !.total = loc[p].tot,
                               !.highest = MaxTicketNumber(tickets)])
    /\ UNCHANGED <<tickets, seq, clock, called, printed>>

\* result = third SELECT; highest_number = result if result is not None else 0;
\* return the payload
StatusHighest(p) ==
    /\ pc[p] = "qs_max"
    /\ Return(p, [NoOut EXCEPT !.op = "get_queue_status", !.kind = "status",
                               !.waiting = loc[p].cnt, !.total = loc[p].tot,
                               !.highest = MaxTicketNumber(tickets)])
    /\ UNCHANGED <<tickets, seq, clock, called, printed>>

(* ---- get_currently_called ---- *)
\* conn = get_connection(); SELECT ticket_number, timestamp FROM tickets WHERE
\* attended = TRUE ORDER BY id DESC LIMIT 1; no row: {"currently_called": None}
\* (num = 0 stands for None, the payload has no key called_at); a row: its number
\* and, as called_at, its issuance timestamp
GetCurrentlyCalled(p) ==
    /\ pc[p] = "idle"
    /\ LET rows == Take(IdDescending(tickets, Attended(tickets)), 1)
       IN  IF rows = <<>>
           THEN Return(p, [NoOut EXCEPT !.op = "get_currently_called",
                                        !.kind = "current",
                                        !.keys = {"currently_called"}])
           ELSE Return(p, [NoOut EXCEPT !.op = "get_currently_called",
                                        !.kind = "current",
                                        !.keys = {"currently_called", "called_at"},
                                        !.num = rows[1].ticket_number,
                                        !.ts = rows[1].timestamp])
    /\ UNCHANGED <<tickets, seq, clock, called, printed>>

(* ---- failures ---- *)
Ops == {"create_ticket", "call_next_ticket", "reset_queue", "get_ticket_history",
        "get_queue_status", "get_currently_called"}

\* get_connection() raises: it is called before the try block of every function,
\* so the exception leaves the function
ConnectFail(p, op) ==
    /\ pc[p] = "idle"
    /\ Return(p, [NoOut EXCEPT !.op = op, !.kind = "raised", !.err = "store"])
    /\ UNCHANGED <<tickets, seq, clock, called, printed>>

\* conn.execute raises; the failed statement changes no row
\* create_ticket: except branch, None
CreateStoreFail(p) ==
    /\ pc[p] \in {"idle", "ct_insert"}
    /\ CreateExcept(p, "store")
    /\ UNCHANGED <<tickets, seq, clock, called, printed>>

\* call_next_ticket: except branch, conn.rollback() raises (no transaction is
\* active) and nothing catches it
CallStoreFail(p) ==
    /\ pc[p] \in {"idle", "cn_update"}
    /\ Return(p, [NoOut EXCEPT !.op = "call_next_ticket", !.kind = "raised",
                               !.err = "store"])
    /\ UNCHANGED <<tickets, seq, clock, called, printed>>

\* reset_queue: except branch, conn.rollback() raises and nothing catches it
ResetStoreFail(p) ==
    /\ pc[p] = "idle"
    /\ Return(p, [NoOut EXCEPT !.op = "reset_queue", !.kind = "raised",
                               !.err = "store"])
    /\ UNCHANGED <<tickets, seq, clock, called, printed>>

\* get_ticket_history: except branch, return []
HistoryStoreFail(p) ==
    /\ pc[p] = "idle"
    /\ Return(p, [NoOut EXCEPT !.op = "get_ticket_history", !.kind = "list",
                               !.err = "store"])
    /\ UNCHANGED <<tickets, seq, clock, called, printed>>

\* get_queue_status: one of the three SELECTs raises; except branch, the payload
\* of zeros
StatusStoreFail(p) ==
    /\ pc[p] \in {"idle"} \cup StatusPcs
    /\ Return(p, [NoOut EXCEPT !.op = "get_queue_status", !.kind = "status",
                               !.err = "store"])
    /\ UNCHANGED <<tickets, seq, clock, called, printed>>

\* get_currently_called: except branch, {"currently_called": None}
CurrentStoreFail(p) ==
    /\ pc[p] = "idle"
    /\ Return(p, [NoOut EXCEPT !.op = "get_currently_called", !.kind = "current",
                               !.err = "store", !.keys = {"currently_called"}])
    /\ UNCHANGED <<tickets, seq, clock, called, printed>>

\* ThermalPrinter() (before the first statement) or printer.print(...) (after the
\* INSERT) raises inside the try block
PrintFail(p) ==
    /\ pc[p] \in {"idle", "ct_print"}
    /\ printed' = IF pc[p] = "ct_print" THEN [printed EXCEPT ![loc[p].num] = @ + 1]
                                        ELSE printed
    /\ CreateExcept(p, "print")
    /\ UNCHANGED <<tickets, seq, clock, called>>

(* ---- scheduling ---- *)
WriteOps == {"create_ticket", "call_next_ticket", "reset_queue"}

CreateStep(p) ==
    \/ CreateSelectMax(p)
    \/ CreateNow(p)
    \/ CreateInsert(p)
    \/ CreatePrint(p)
    \/ CreateStoreFail(p)
    \/ PrintFail(p)

CallStep(p) ==
    \/ CallSelect(p)
    \/ CallUpdate(p)
    \/ CallTime(p)
    \/ CallWait(p)
    \/ CallStoreFail(p)

ResetStep(p) ==
    \/ ResetQueue(p)
    \/ ResetStoreFail(p)

WriterStep(p) ==
    \/ CreateStep(p)
    \/ CallStep(p)
    \/ ResetStep(p)
    \/ \E op \in WriteOps : ConnectFail(p, op)

\* the mutating operations, called concurrently: any caller takes its next step
Next ==
    \/ Tick
    \/ ClockSetBack
    \/ \E p \in Procs : WriterStep(p)

Spec == Init /\ [][Next]_vars

\* no other caller is inside a function
Alone(p) == \A q \in Procs \ {p} : pc[q] = "idle"

\* every operation, calls one after another: a call starts only when no call is
\* running (a step inside a call finds the other callers idle)
NextSeq ==
    \/ Tick
    \/ ClockSetBack
    \/ \E p \in Procs :
         \/ Alone(p) /\ CreateSelectMax(p)
         \/ CreateNow(p)
         \/ CreateInsert(p)
         \/ CreatePrint(p)
         \/ Alone(p) /\ CreateStoreFail(p)
         \/ Alone(p) /\ PrintFail(p)
         \/ Alone(p) /\ CallSelect(p)
         \/ CallUpdate(p)
         \/ CallTime(p)
         \/ CallWait(p)
         \/ Alone(p) /\ CallStoreFail(p)
         \/ Alone(p) /\ ResetQueue(p)
         \/ Alone(p) /\ ResetStoreFail(p)
         \/ Alone(p) /\ GetTicketHistory(p)
         \/ Alone(p) /\ GetTicketHistoryDefault(p)
         \/ Alone(p) /\ HistoryStoreFail(p)
         \/ Alone(p) /\ StatusWaiting(p)
         \/ StatusTotal(p)
         \/ StatusHighest(p)
         \/ Alone(p) /\ StatusStoreFail(p)
         \/ Alone(p) /\ GetCurrentlyCalled(p)
         \/ Alone(p) /\ CurrentStoreFail(p)
         \/ \E op \in Ops : Alone(p) /\ ConnectFail(p, op)

SpecSeq == Init /\ [][NextSeq]_vars

\* no other caller is inside create_ticket
NoOtherIssuer(p) == \A q \in Procs \ {p} : pc[q] \notin CreatePcs

\* create_ticket calls do not overlap one another; call_next_ticket and
\* reset_queue run concurrently with them and with each other
NextOneIssuer ==
    \/ Tick
    \/ ClockSetBack
    \/ \E p \in Procs :
         \/ NoOtherIssuer(p) /\ CreateSelectMax(p)
         \/ CreateNow(p)
         \/ CreateInsert(p)
         \/ CreatePrint(p)
         \/ NoOtherIssuer(p) /\ CreateStoreFail(p)
         \/ NoOtherIssuer(p) /\ PrintFail(p)
         \/ CallStep(p)
         \/ ResetStep(p)
         \/ \E op \in WriteOps : ConnectFail(p, op)

SpecOneIssuer == Init /\ [][NextOneIssuer]_vars

\* get_queue_status called concurrently with the mutating operations and with
\* itself; the clock stands still
NextStatus ==
    \E p \in Procs :
        \/ WriterStep(p)
        \/ StatusWaiting(p)
        \/ StatusTotal(p)
        \/ StatusHighest(p)
        \/ StatusStoreFail(p)
        \/ ConnectFail(p, "get_queue_status")

SpecStatus == Init /\ [][NextStatus]_vars

(* ---- draining the queue ---- *)
\* some caller starts call_next_ticket while no call is running
CallStarts == \E p \in Procs : Alone(p) /\ CallSelect(p)

\* create_ticket and call_next_ticket, calls one after another, on a store and a
\* printer that work
NextDrain ==
    \/ Tick
    \/ ClockSetBack
    \/ \E p \in Procs :
         \/ Alone(p) /\ CreateSelectMax(p)
         \/ CreateNow(p)
         \/ CreateInsert(p)
         \/ CreatePrint(p)
         \/ Alone(p) /\ CallSelect(p)
         \/ CallUpdate(p)
         \/ CallTime(p)
         \/ CallWait(p)

\* a running call executes its next statement, and call_next_ticket keeps being
\* called
SpecDrain ==
    /\ Init
    /\ [][NextDrain]_vars
    /\ \A p \in Procs : /\ WF_vars(CreateNow(p))
                        /\ WF_vars(CreateInsert(p))
                        /\ WF_vars(CreatePrint(p))
                        /\ WF_vars(CallUpdate(p))
                        /\ WF_vars(CallTime(p))
                        /\ WF_vars(CallWait(p))
    /\ SF_vars(CallStarts)

(* ---- create_ticket with a print sink that may never complete ---- *)
\* printer.print(...) is called and does not return: the subprocess.run calls of
\* ThermalPrinter._try_alternative_printing_methods have no timeout and a write
\* to a device file can block; create_ticket waits inside the call
PrintBlocks(p) ==
    /\ pc[p] = "ct_print"
    /\ printed' = [printed EXCEPT ![loc[p].num] = @ + 1]
    /\ Goto(p, "ct_blocked")
    /\ UNCHANGED <<tickets, seq, clock, loc, called>>

\* create_ticket reaches the call printer.print(...): it returns, raises or blocks
PrintCall(p) ==
    /\ pc[p] = "ct_print"
    /\ (CreatePrint(p) \/ PrintFail(p) \/ PrintBlocks(p))

\* create_ticket called concurrently, with a print sink that may block
NextPrint ==
    \/ Tick
    \/ ClockSetBack
    \/ \E p \in Procs :
         \/ CreateSelectMax(p)
         \/ CreateNow(p)
         \/ CreateInsert(p)
         \/ CreatePrint(p)
         \/ PrintBlocks(p)
         \/ CreateStoreFail(p)
         \/ PrintFail(p)
         \/ ConnectFail(p, "create_ticket")

\* a caller inside create_ticket executes its next statement; nothing makes a
\* call of printer.print return
SpecPrint ==
    /\ Init
    /\ [][NextPrint]_vars
    /\ \A p \in Procs : /\ WF_vars(CreateNow(p))
                        /\ WF_vars(CreateInsert(p))
                        /\ WF_vars(PrintCall(p))

(***************************************************************************)
(* Properties                                                              *)
(***************************************************************************)
RowIds == {tickets[i].id : i \in DOMAIN tickets}

RowOf(id) == tickets[CHOOSE i \in DOMAIN tickets : tickets[i].id = id]

NumbersInTable == {tickets[i].ticket_number : i \in DOMAIN tickets}

\* C1: concurrent create_ticket calls on an initially empty store give the rows
\* pairwise distinct ticket numbers, which form exactly 1..K for K rows.
C1_DistinctContiguousNumbers ==
    /\ \A i, j \in DOMAIN tickets :
           i # j => tickets[i].ticket_number # tickets[j].ticket_number
    /\ NumbersInTable = 1..Len(tickets)

\* a caller that has selected a ticket and executed the UPDATE attending it
HasAttended(p) == pc[p] \in {"cn_time", "cn_wait"}

\* C2: two concurrent call_next_ticket calls never both select and attend the
\* same ticket.
C2_NoTicketAttendedTwice ==
    \A p, q \in Procs :
        (p # q /\ HasAttended(p) /\ HasAttended(q)) => loc[p].id # loc[q].id

\* the step returns a ticket from call_next_ticket
ReturnsCalled == out'.op = "call_next_ticket" /\ out'.kind = "called"

\* C3: when calls do not overlap, call_next_ticket returns tickets in the order
\* of their issuance: a returned ticket was issued after every ticket returned
\* before it.
C3_CalledInIssueOrder ==
    [][ReturnsCalled => \A x \in called : x < out'.id]_vars

\* the waiting row with the least (timestamp, id)
FirstInLine(tbl) ==
    CHOOSE i \in DOMAIN tbl :
        /\ ~tbl[i].attended
        /\ \A j \in DOMAIN tbl :
              (~tbl[j].attended /\ j # i) =>
                  \/ tbl[i].timestamp < tbl[j].timestamp
                  \/ tbl[i].timestamp = tbl[j].timestamp /\ tbl[i].id < tbl[j].id

\* C4: the SELECT of call_next_ticket picks the waiting ticket with the least
\* (timestamp, id), whatever the other callers are doing.
C4_SelectsLeastTimestampThenId ==
    [][\A p \in Procs :
          (pc[p] = "idle" /\ pc'[p] = "cn_update") =>
              loc'[p].id = tickets[FirstInLine(tickets)].id]_vars

\* C5: when create_ticket calls do not overlap one another (call_next_ticket and
\* reset_queue interleave freely), the i-th row inserted carries ticket number i,
\* so N rows hold exactly the numbers 1..N, and a returned payload carries the
\* number of the row its call inserted.
C5_SerialIssuanceNumbers ==
    /\ \A i \in DOMAIN tickets : tickets[i].ticket_number = i
    /\ (out.op = "create_ticket" /\ out.kind = "ticket") =>
           /\ out.id \in RowIds
           /\ RowOf(out.id).ticket_number = out.num
           /\ out.num <= Len(tickets)

\* a later issuance has returned its payload after an earlier ticket was attended
C5_Witness ==
    /\ out.op = "create_ticket" /\ out.kind = "ticket"
    /\ out.num = 2
    /\ tickets[1].attended

\* C6: when the print sink fails during create_ticket, create_ticket still
\* returns the ticket payload and the ticket is in the table, waiting or called.
C6_PrintFailureNotPropagated ==
    (out.op = "create_ticket" /\ out.err = "print") =>
        /\ out.kind = "ticket"
        /\ out.id \in RowIds

\* C7: when create_ticket returns None, its call has left no row in the table.
C7_CreationFailureLeavesNoRow ==
    (out.op = "create_ticket" /\ out.kind = "none") => out.id \notin RowIds

\* C8: when calls do not overlap, a ticket returned by call_next_ticket was not
\* returned by any earlier call_next_ticket.
C8_NeverReturnedAgain ==
    [][ReturnsCalled => out'.id \notin called]_vars

\* a second ticket has been returned after a first one
C8_Witness ==
    /\ out.op = "call_next_ticket" /\ out.kind = "called"
    /\ Cardinality(called) >= 2

\* the entry get_ticket_history builds for the row of this id
EntryOf(id) == [ticket_number |-> RowOf(id).ticket_number,
                called_at |-> RowOf(id).timestamp]

Entries(h) == {h[k] : k \in DOMAIN h}

AttendedCount == Cardinality({i \in DOMAIN tickets : tickets[i].attended})

\* C9: in every state, each ticket that call_next_ticket has returned is listed
\* by get_ticket_history(limit) for every limit that is at least the number of
\* attended tickets, and a get_ticket_history call that has read the table with
\* such a limit returns a list holding it.
C9_CalledStaysInHistory ==
    \A x \in called :
        /\ \A limit \in 1..MaxLimit :
              limit >= AttendedCount =>
                  EntryOf(x) \in Entries(TicketHistory(tickets, limit))
        /\ (out.op = "get_ticket_history" /\ out.err = "-" /\ out.num >= AttendedCount) =>
                  EntryOf(x) \in Entries(out.hist)

\* get_ticket_history has returned a list holding a called ticket and a ticket
\* attended by reset_queue
C9_Witness ==
    /\ out.op = "get_ticket_history" /\ out.err = "-"
    /\ Len(out.hist) = 2
    /\ Cardinality(called) = 1

NoneWaiting == \A i \in DOMAIN tickets : tickets[i].attended

\* C10: a call_next_ticket whose SELECT runs on a table with no waiting row
\* returns None and the step changes neither the table nor the sequence; it never
\* goes on to the UPDATE.
C10_EmptyQueueReturnsNoneNoMutation ==
    [][NoneWaiting =>
          /\ \A p \in Procs : pc[p] = "idle" => pc'[p] # "cn_update"
          /\ (pc' = pc /\ out'.op = "call_next_ticket" /\ out'.err = "-") =>
                 /\ out'.kind = "none"
                 /\ tickets' = tickets
                 /\ seq' = seq]_vars

\* call_next_ticket has returned None on a table whose tickets are all attended
C10_Witness ==
    /\ out.op = "call_next_ticket" /\ out.kind = "none"
    /\ tickets # <<>>
    /\ NoneWaiting

\* the step returns True from reset_queue
ReturnsReset == out'.op = "reset_queue" /\ out'.kind = "true"

\* the step returns True from reset_queue right after a reset_queue call that
\* returned True
SecondReset ==
    /\ out.op = "reset_queue" /\ out.kind = "true"
    /\ ReturnsReset

\* C11 as stated: after each of two reset_queue calls in succession no ticket is
\* waiting, and the second call touches no row and leaves the table as it was.
C11_SecondResetTouchesNoRow ==
    [][/\ ReturnsReset => \A i \in DOMAIN tickets' : tickets'[i].attended
       /\ SecondReset => /\ out'.rows = 0
                         /\ tickets' = tickets]_vars

\* C11, amended: after each of two reset_queue calls in succession no ticket is
\* waiting; the UPDATE of the second call matches every row of the table (it has
\* no WHERE clause) but gives none a new value, so the table is left exactly as
\* the first call left it.
C11_SecondResetChangesNoRow ==
    [][/\ ReturnsReset => \A i \in DOMAIN tickets' : tickets'[i].attended
       /\ SecondReset => /\ out'.rows = Len(tickets)
                         /\ out'.changed = 0
                         /\ tickets' = tickets]_vars

\* reset_queue has returned True on a table that held tickets, none of them waiting
C11_Witness ==
    /\ out.op = "reset_queue" /\ out.kind = "true"
    /\ out.rows > 0
    /\ out.changed = 0

\* C12: when calls do not overlap, a get_queue_status call that meets no store
\* failure returns waiting_tickets = the number of rows with attended false,
\* total_issued = the number of rows (no row is ever deleted) and highest_ticket =
\* the greatest ticket_number, 0 on an empty table.
C12_StatusCountsRows ==
    (out.op = "get_queue_status" /\ out.err = "-") =>
        /\ out.waiting = Cardinality({i \in DOMAIN tickets : ~tickets[i].attended})
        /\ out.total = Len(tickets)
        /\ \/ tickets = <<>> /\ out.highest = 0
           \/ /\ \E i \in DOMAIN tickets : tickets[i].ticket_number = out.highest
              /\ \A i \in DOMAIN tickets : tickets[i].ticket_number <= out.highest

\* after two issuances and one call_next_ticket the status is (1, 2, 2)
C12_Witness ==
    /\ out.op = "get_queue_status" /\ out.err = "-"
    /\ out.waiting = 1 /\ out.total = 2 /\ out.highest = 2
    /\ Cardinality(called) = 1

Min(a, b) == IF a < b THEN a ELSE b

\* the step returns the list of a get_ticket_history call that met no store failure
ReturnsHistory == out'.op = "get_ticket_history" /\ out'.err = "-"

\* C13: when calls do not overlap, get_ticket_history(limit) returns exactly
\* min(limit, number of attended tickets) entries, in descending order of id
\* (which is the order of ticket numbers), and most recently attended first: called
\* right after a call_next_ticket that returned a ticket, it lists that ticket
\* first.
C13_HistoryMostRecentFirst ==
    [][ReturnsHistory =>
          /\ Len(out'.hist) = Min(out'.num, AttendedCount)
          /\ \A k \in 1..(Len(out'.hist) - 1) :
                out'.hist[k].ticket_number > out'.hist[k + 1].ticket_number
          /\ (out.op = "call_next_ticket" /\ out.kind = "called") =>
                /\ out'.hist # <<>>
                /\ out'.hist[1].ticket_number = out.num]_vars

\* the step returns the payload of a get_currently_called call that met no store
\* failure
ReturnsCurrent == out'.op = "get_currently_called" /\ out'.err = "-"

\* C14: when calls do not overlap, get_currently_called returns the number of the
\* ticket returned by the latest successful call_next_ticket: a number that
\* call_next_ticket has returned and, right after a call_next_ticket that returned
\* a ticket, that ticket's number; when no ticket is attended its payload carries
\* both currently_called and called_at, as null.
C14_CurrentlyCalledIsLatestCall ==
    [][ReturnsCurrent =>
          /\ (\A i \in DOMAIN tickets : ~tickets[i].attended) =>
                /\ out'.num = 0
                /\ out'.keys = {"currently_called", "called_at"}
          /\ called # {} =>
                out'.num \in {RowOf(x).ticket_number : x \in called}
          /\ (out.op = "call_next_ticket" /\ out.kind = "called") =>
                out'.num = out.num]_vars

\* C15: for every call_next_ticket that returns a ticket, wait_time_seconds is
\* the clock reading at the call minus the issuance timestamp stored in the row
\* of the returned ticket, and is not negative.
C15_WaitTimeNonNegative ==
    (out.op = "call_next_ticket" /\ out.kind = "called") =>
        /\ out.wait = clock - RowOf(out.id).timestamp
        /\ out.wait >= 0

\* the value a mutating function returns to report failure
FailureValue(op) == IF op = "reset_queue" THEN "false" ELSE "none"

\* C16: when the store fails (the connection cannot be opened or a statement
\* raises), create_ticket, call_next_ticket and reset_queue return None, None and
\* False, and no exception leaves the function.
C16_StoreFailureReturnsFailureValue ==
    (out.op \in WriteOps /\ out.err = "store") => out.kind = FailureValue(out.op)

\* C17: when reset_queue fails, the table is as it was before the call, every
\* waiting ticket still waiting, and the call returns False.
C17_FailedResetChangesNothing ==
    [][(out'.op = "reset_queue" /\ out'.err = "store") =>
          /\ tickets' = tickets
          /\ out'.kind = "false"]_vars

\* C18: every row is inserted with attended = FALSE, and no step of any
\* operation, under any interleaving, turns the attended flag of a row from TRUE
\* back to FALSE (or removes the row).
C18_AttendedIsOneWay ==
    [][/\ Len(tickets') >= Len(tickets)
       /\ \A i \in DOMAIN tickets :
             /\ tickets'[i].id = tickets[i].id
             /\ tickets[i].attended => tickets'[i].attended
       /\ \A i \in DOMAIN tickets' \ DOMAIN tickets : ~tickets'[i].attended]_vars

\* two callers have each executed the UPDATE of call_next_ticket on the same
\* row, the second on a row already attended, and the row is attended
C18_Witness ==
    \E p, q \in Procs :
        /\ p # q
        /\ HasAttended(p) /\ HasAttended(q)
        /\ loc[p].id = loc[q].id
        /\ RowOf(loc[p].id).attended

\* C19: when create_ticket calls do not overlap one another, a create_ticket
\* that returns a ticket returns the highest ticket number issued before it plus
\* one (1 on an empty table), whether or not the earlier tickets have been
\* attended by reset_queue or call_next_ticket: never 1 again, never a number
\* already issued.
C19_NumberingNeverRestarts ==
    (out.op = "create_ticket" /\ out.kind = "ticket") =>
        LET earlier == {tickets[i].ticket_number :
                           i \in {j \in DOMAIN tickets : tickets[j].id < out.id}}
        IN  /\ \A n \in earlier : n < out.num
            /\ earlier # {} => (out.num - 1) \in earlier
            /\ earlier = {} => out.num = 1

\* create_ticket has returned ticket 2 after reset_queue attended ticket 1
C19_Witness ==
    /\ out.op = "create_ticket" /\ out.kind = "ticket"
    /\ out.num = 2
    /\ tickets[1].attended
    /\ called = {}

\* C20: no other operation's write falls between the read and the write of one
\* operation, so each write acts on the table its operation read: the INSERT of
\* create_ticket carries the greatest ticket number in the table plus one, and
\* the UPDATE of call_next_ticket attends a ticket that is still waiting.
C20_WriteActsOnWhatWasRead ==
    [][\A p \in Procs :
          /\ (pc[p] = "ct_insert" /\ pc'[p] = "ct_print") =>
                \A i \in DOMAIN tickets : tickets[i].ticket_number < loc[p].num
          /\ (pc[p] = "cn_update" /\ pc'[p] = "cn_time") =>
                \E i \in DOMAIN tickets :
                    tickets[i].id = loc[p].id /\ ~tickets[i].attended]_vars

\* C21: whenever the print side effect is invoked for a ticket number, the row of
\* the invoking create_ticket call is already in the table and carries that
\* number, the invocation counts once, and it is the last step of the call, so a
\* call invokes print at most once.
C21_PrintOnlyAfterInsert ==
    [][\A n \in DOMAIN printed :
          printed'[n] # printed[n] =>
              /\ printed'[n] = printed[n] + 1
              /\ \E p \in Procs :
                    /\ pc[p] = "ct_print" /\ pc'[p] = "idle"
                    /\ loc[p].num = n
                    /\ \E i \in DOMAIN tickets :
                          tickets[i].id = loc[p].id /\ tickets[i].ticket_number = n]_vars

\* create_ticket has returned a ticket whose print was invoked and whose row is
\* in the table
C21_Witness ==
    /\ out.op = "create_ticket" /\ out.kind = "ticket"
    /\ printed[out.num] >= 1
    /\ \E i \in DOMAIN tickets : tickets[i].id = out.id

\* caller p executes the UPDATE of call_next_ticket in this step
Attends(p) == pc[p] = "cn_update" /\ pc'[p] = "cn_time"

\* C22: the UPDATE of a call_next_ticket that goes on to return its ticket turns
\* the attended flag of exactly one row, the selected one, from FALSE to TRUE;
\* it leaves every other row and the id, ticket_number and timestamp of every
\* row as they were, so the number of waiting rows drops by one and the number of
\* rows stays.
C22_CallAttendsExactlyOneRow ==
    [][\A p \in Procs :
          Attends(p) =>
              /\ Len(tickets') = Len(tickets)
              /\ \A i \in DOMAIN tickets :
                    /\ tickets'[i].id = tickets[i].id
                    /\ tickets'[i].ticket_number = tickets[i].ticket_number
                    /\ tickets'[i].timestamp = tickets[i].timestamp
                    /\ tickets'[i].attended # tickets[i].attended <=>
                           tickets[i].id = loc[p].id
                    /\ tickets[i].id = loc[p].id =>
                           ~tickets[i].attended /\ tickets'[i].attended
              /\ Cardinality({i \in DOMAIN tickets' : ~tickets'[i].attended}) =
                 Cardinality({i \in DOMAIN tickets : ~tickets[i].attended}) - 1]_vars

\* the greatest ticket number in the table, 0 when it is empty
Highest(tbl) ==
    IF tbl = <<>> THEN 0
    ELSE CHOOSE m \in {tbl[i].ticket_number : i \in DOMAIN tbl} :
            \A i \in DOMAIN tbl : tbl[i].ticket_number <= m

\* C23: a reset_queue that returns True leaves every ticket attended, so none is
\* waiting, and removes nothing: the number of rows, the greatest ticket number
\* and the id, ticket_number and timestamp of every row are as before.
C23_ResetAttendsAllKeepsHistory ==
    [][ReturnsReset =>
          /\ \A i \in DOMAIN tickets' : tickets'[i].attended
          /\ Len(tickets') = Len(tickets)
          /\ Highest(tickets') = Highest(tickets)
          /\ \A i \in DOMAIN tickets :
                /\ tickets'[i].id = tickets[i].id
                /\ tickets'[i].ticket_number = tickets[i].ticket_number
                /\ tickets'[i].timestamp = tickets[i].timestamp]_vars

\* reset_queue has returned True after attending two waiting tickets
C23_Witness ==
    /\ out.op = "reset_queue" /\ out.kind = "true"
    /\ out.changed = 2
    /\ Len(tickets) = 2

C25_ReturnsIssuanceTimestamp ==
    (out.op = "call_next_ticket" /\ out.kind = "called") =>
        /\ out.num = RowOf(out.id).ticket_number
        /\ out.ts = RowOf(out.id).timestamp

\* C25, amended: a call_next_ticket that returns a ticket returns the ticket's
\* number, as called_time a clock reading taken during the call, after the
\* UPDATE, and as wait_time_seconds a later reading minus the issuance timestamp
\* stored in the row; the issuance timestamp itself is not in the payload.
C25_ReturnsCallTimeAndWait ==
    [][\A p \in Procs :
          /\ (pc[p] = "cn_time" /\ pc'[p] = "cn_wait") => loc'[p].ct = clock
          /\ (pc[p] = "cn_wait" /\ pc'[p] = "idle") =>
                /\ out'.kind = "called"
                /\ out'.num = RowOf(loc[p].id).ticket_number
                /\ out'.ts = loc[p].ct
                /\ out'.wait = clock - RowOf(loc[p].id).timestamp]_vars

\* call_next_ticket has returned a called_time later than the issuance timestamp
\* of the returned ticket
C25_Witness ==
    /\ out.op = "call_next_ticket" /\ out.kind = "called"
    /\ out.ts > RowOf(out.id).timestamp
    /\ out.wait > 0

\* C26: once the row of a create_ticket call is committed and the call has
\* reached the print, the call eventually returns, whether or not the print sink
\* ever completes.
C26_ReturnsWithoutWaitingForPrint ==
    \A p \in Procs : (pc[p] = "ct_print") ~> (pc[p] = "idle")

\* what the caller of a read-type call receives
Visible(r) ==
    CASE r.op = "call_next_ticket"     -> <<r.kind, r.num, r.ts, r.wait>>
      [] r.op = "get_currently_called" -> <<r.kind, r.keys, r.num, r.ts>>
      [] r.op = "get_ticket_history"   -> <<r.kind, r.hist>>
      [] r.op = "get_queue_status"     -> <<r.kind, r.waiting, r.total, r.highest>>
      [] OTHER                         -> <<r.kind>>

Readers == {"call_next_ticket", "get_currently_called", "get_ticket_history",
            "get_queue_status"}

\* C27: what call_next_ticket, get_currently_called, get_ticket_history and
\* get_queue_status hand to the caller when the store fails differs from what the
\* same function has just returned, without failure, on an empty table.
C27_StoreErrorDiffersFromEmpty ==
    [][(/\ tickets = <<>>
        /\ out.op \in Readers /\ out.err = "-"
        /\ out'.op = out.op /\ out'.err = "store") =>
            Visible(out') # Visible(out)]_vars

\* C28: under any interleaving with concurrent writers a get_queue_status call
\* that meets no store failure returns 0 <= waiting_tickets <= total_issued; and
\* when the table holds the numbers 1..N in order, as it does after operations
\* that do not overlap, and no row was inserted after the call counted the rows,
\* it returns highest_ticket = total_issued.
C28_StatusTripleConsistent ==
    (out.op = "get_queue_status" /\ out.err = "-") =>
        /\ 0 <= out.waiting
        /\ out.waiting <= out.total
        /\ ((\A i \in DOMAIN tickets : tickets[i].ticket_number = i)
               /\ out.total = Len(tickets)) => out.highest = out.total

\* get_queue_status has returned while a ticket was issued between its count of
\* all rows and its read of the greatest number
C28_Witness ==
    /\ out.op = "get_queue_status" /\ out.err = "-"
    /\ out.waiting < out.total
    /\ out.total < Len(tickets)
    /\ out.highest > out.total

\* the number of waiting rows
WaitingCount(tbl) == Cardinality({i \in DOMAIN tbl : ~tbl[i].attended})

\* C29: when calls do not overlap and the store works, each call_next_ticket
\* that finds a waiting ticket attends exactly one, a call returns None exactly
\* when no ticket is waiting, so from w waiting tickets w calls succeed and the
\* next one returns None; and if call_next_ticket keeps being called, every
\* waiting ticket is eventually attended.
C29_RepeatedCallsDrainTheQueue ==
    /\ [][/\ \A p \in Procs :
               /\ Attends(p) => WaitingCount(tickets') = WaitingCount(tickets) - 1
               /\ (pc[p] = "idle" /\ pc'[p] = "cn_update") => WaitingCount(tickets) > 0
          /\ (pc' = pc /\ out'.op = "call_next_ticket") =>
                 (out'.kind = "none" /\ WaitingCount(tickets) = 0)]_vars
    /\ \A i \in 1..MaxTickets :
          (i \in DOMAIN tickets /\ ~tickets[i].attended)
              ~> (i \in DOMAIN tickets /\ tickets[i].attended)

\* two tickets were called one after the other and the next call_next_ticket
\* returned None
C29_Witness ==
    /\ out.op = "call_next_ticket" /\ out.kind = "none"
    /\ Cardinality(called) = 2
    /\ WaitingCount(tickets) = 0

\* some row of the table is attended and carries this number and timestamp
AttendedRow(number, ts) ==
    \E i \in DOMAIN tickets :
        /\ tickets[i].ticket_number = number
        /\ tickets[i].timestamp = ts
        /\ tickets[i].attended

\* C30: every entry of a list returned by get_ticket_history, and the ticket
\* returned by get_currently_called, is a row of the table that is attended when
\* it is read: no waiting ticket and no number that was never issued is reported.
C30_ReadsReportAttendedRows ==
    /\ (out.op = "get_ticket_history" /\ out.err = "-") =>
           \A k \in DOMAIN out.hist :
               AttendedRow(out.hist[k].ticket_number, out.hist[k].called_at)
    /\ (out.op = "get_currently_called" /\ out.err = "-" /\ out.num # 0) =>
           AttendedRow(out.num, out.ts)

\* get_currently_called has returned the attended ticket while another ticket
\* is still waiting
C30_Witness ==
    /\ out.op = "get_currently_called" /\ out.err = "-"
    /\ out.num = 1
    /\ Len(tickets) = 2
    /\ ~tickets[2].attended
====
